---- MODULE Spec2Model ----
(***************************************************************************)
(* The paginated acquisition engine of download_step1a_scraper.py: one     *)
(* call of run_t, from the browser bootstrap to the Parquet write.  The    *)
(* remote endpoint, the browser and the file system are the environment:   *)
(* every outcome they can produce is a nondeterministic choice of the      *)
(* action that talks to them.                                              *)
(***************************************************************************)
EXTENDS Integers, Sequences, FiniteSets, TLC

(* ------------------------------------------------------------------ *)
(* Configuration (lines 26-35) and the bounds of the model            *)
(* ------------------------------------------------------------------ *)

\* PAGE_LENGTH is 10000 in the source; the model walks pages of this length.
PAGE_LENGTH == 2

MAX_RETRIES == 4

RETRY_BACKOFF == 2

\* The largest number of rows the remote table holds for the date range.
MaxRows == 5

\* The largest recordsTotal / recordsFiltered the remote reports.
MaxCount == 5

\* Python's None, among string values.
None == "None"

\* A name that is not a key of a mapping.
Absent == "<absent>"

Min(a, b) == IF a < b THEN a ELSE b

Max(a, b) == IF a < b THEN b ELSE a

\* Python truthiness of a string-or-None value (`if not token`, `x or y`).
Falsy(v) == v = None \/ v = ""

\* A count a response does not carry (resp_json.get gives None).
NoCount == 0 - 1

\* Python truthiness of an int-or-None value (`x or 0`).
FalsyNum(v) == v = NoCount \/ v = 0

(* ------------------------------------------------------------------ *)
(* _build_date (lines 165-171)                                        *)
(* ------------------------------------------------------------------ *)

RECURSIVE StripLeft(_)
StripLeft(s) ==
    IF Len(s) > 0 /\ SubSeq(s, 1, 1) = " " THEN StripLeft(SubSeq(s, 2, Len(s))) ELSE s

RECURSIVE StripRight(_)
StripRight(s) ==
    IF Len(s) > 0 /\ SubSeq(s, Len(s), Len(s)) = " "
    THEN StripRight(SubSeq(s, 1, Len(s) - 1)) ELSE s

\* str.strip()
Strip(s) == StripRight(StripLeft(s))

\* str.split("/", 1): the text cut at its first slash, or the text alone.
SplitSlash(s) ==
    LET hits == {i \in 1..Len(s) : SubSeq(s, i, i) = "/"}
    IN  IF hits = {} THEN <<s>>
        ELSE LET i == CHOOSE j \in hits : \A k \in hits : j <= k
             IN  <<SubSeq(s, 1, i - 1), SubSeq(s, i + 1, Len(s))>>

\* str.zfill(2) on the unsigned texts the model passes
Zfill2(s) == IF Len(s) = 0 THEN "00" ELSE IF Len(s) = 1 THEN "0" \o s ELSE s

\* TRUE when _build_date raises ValueError (line 168-169)
BuildDateRaises(ddmm) == Len(SplitSlash(Strip(ddmm))) # 2

\* The dd/mm/yyyy text _build_date returns (lines 170-171)
BuildDate(ddmm, year) ==
    LET parts == SplitSlash(Strip(ddmm))
    IN  Zfill2(parts[1]) \o "/" \o Zfill2(parts[2]) \o "/" \o ToString(year)

\* The (ddmm, date_to_ddmm) arguments run_t is called with.
DateArgs ==
    { <<"1/1", None>>, <<" 01/07", "30/9">>, <<"0101", None>>, <<"1/1", "3112">> }

YearArgs == {2024}

(* ------------------------------------------------------------------ *)
(* The browser and the session (lines 57-111)                         *)
(* ------------------------------------------------------------------ *)

TokenName == "__RequestVerificationToken"

CookieNames == {"ASP.NET_SessionId", TokenName}

\* What the browser shows after loading the home page: the value of the hidden
\* form field (None when the element is missing) and the cookies it holds.
BrowserViews ==
    { [field |-> "tokA", cookies |-> [n \in CookieNames |->
                   IF n = TokenName THEN Absent ELSE "s1"]],
      [field |-> None,   cookies |-> [n \in CookieNames |->
                   IF n = TokenName THEN "tokB" ELSE "s2"]],
      [field |-> "",     cookies |-> [n \in CookieNames |-> Absent]] }

\* The token start_browser_get_token returns: the hidden field, else the
\* same-named cookie (lines 69-81).
BootstrapToken(view) ==
    IF ~Falsy(view.field) THEN view.field
    ELSE IF view.cookies[TokenName] # Absent THEN view.cookies[TokenName]
    ELSE view.field

\* driver_info of start_browser_get_token (lines 84-89)
BootstrapInfo(view) == [token |-> BootstrapToken(view), cookies |-> view.cookies]

\* requests.Session() (line 179): no cookie, no token header.
NewSession == [cookies |-> [n \in CookieNames |-> Absent], token |-> Absent]

\* update_session_from_driver (lines 95-111): every cookie of driver_info is
\* set on the session, and the token header only when the token is truthy.
update_session_from_driver(session, driver_info) ==
    [cookies |-> [n \in CookieNames |->
                    IF driver_info.cookies[n] # Absent
                    THEN driver_info.cookies[n] ELSE session.cookies[n]],
     token   |-> IF ~Falsy(driver_info.token) THEN driver_info.token
                 ELSE session.token]

(* ------------------------------------------------------------------ *)
(* The remote table and its records                                   *)
(* ------------------------------------------------------------------ *)

FieldNames == {"ContractNumber", "Contractors", "Service"}

\* A JSON value: its type and its text.  A list or an object carries the text
\* between its brackets.
Val(t, s) == [t |-> t, s |-> s]

AbsentVal == Val("absent", "")

ScalarTypes == {"str", "int", "float", "bool"}

\* The shapes of table the remote returns records from.
Variants == {"plain", "gaps", "sparse_first", "bad_first", "bad_later"}

\* The i-th record of a well-formed table: heterogeneous keys, and a
\* Contractors field that is a list, a string or null.
PlainRecord(i) ==
    [kind |-> "dict",
     f |-> [n \in FieldNames |->
              CASE n = "ContractNumber" -> Val("str", "C" \o ToString(i))
                [] n = "Contractors" ->
                     IF i % 3 = 1 THEN Val("list", "{\"Name\": \"N" \o ToString(i) \o "\"}")
                     ELSE IF i % 3 = 2 THEN Val("str", "Solo")
                     ELSE Val("null", "")
                [] OTHER ->
                     IF i % 2 = 0 THEN AbsentVal
                     ELSE IF i = 1 THEN Val("obj", "\"Id\": 7")
                     ELSE Val("int", "3")]]

EmptyRecord == [kind |-> "dict", f |-> [n \in FieldNames |-> AbsentVal]]

NullRecord == [kind |-> "null", f |-> [n \in FieldNames |-> AbsentVal]]

\* A record that is no mapping (a JSON string, say).
ScalarRecord == [kind |-> "scalar", f |-> [n \in FieldNames |-> AbsentVal]]

\* A record with a single key.
SparseRecord(i) ==
    [kind |-> "dict",
     f |-> [n \in FieldNames |->
              IF n = "ContractNumber" THEN Val("str", "C" \o ToString(i)) ELSE AbsentVal]]

ServerRecord(variant, i) ==
    CASE variant = "gaps" /\ i = 2 -> EmptyRecord
      [] variant = "sparse_first" /\ i = 1 -> SparseRecord(i)
      [] variant = "gaps" /\ i = 4 -> NullRecord
      [] variant = "bad_first" /\ i = 1 -> ScalarRecord
      [] variant = "bad_later" /\ i = PAGE_LENGTH + 1 -> ScalarRecord
      [] OTHER -> PlainRecord(i)

ServerTable(variant, n) == [i \in 1..n |-> ServerRecord(variant, i)]

\* The "data" of the response to a request for `length` rows from `start`.
ServerPage(tbl, start, length) ==
    SubSeq(tbl, start + 1, Min(Len(tbl), start + length))

(* ------------------------------------------------------------------ *)
(* build_payload, normalize_rows (lines 114-162)                      *)
(* ------------------------------------------------------------------ *)

build_payload(draw_, start_, length_, date_from_, date_to_) ==
    [draw |-> draw_, start |-> start_, length |-> length_,
     DateOfGrantFrom |-> date_from_, DateOfGrantTo |-> date_to_]

\* `not row` (line 152): None and the empty mapping
RowFalsy(row) ==
    row.kind = "null" \/ (row.kind = "dict" /\ \A n \in FieldNames : row.f[n] = AbsentVal)

\* dict(row) raises on a truthy record that is no mapping (line 154)
NormalizeRaises(rows) ==
    \E i \in 1..Len(rows) : ~RowFalsy(rows[i]) /\ rows[i].kind # "dict"

\* json.dumps(contractors, ensure_ascii=False) (line 158)
JsonDumps(v) == IF v.t = "list" THEN "[" \o v.s \o "]" ELSE "{" \o v.s \o "}"

\* NormalizeRow with isinstance(contractors, str) as its test: a number or a
\* boolean is turned to text as well.
NormalizeRowStrOnly(row) ==
    LET contractors == row.f["Contractors"]
    IN  IF contractors.t \notin {"absent", "null", "str"}
        THEN [row EXCEPT !.f["Contractors"] = Val("str", contractors.s)]
        ELSE row

\* lines 154-160: only Contractors is looked at
NormalizeRow(row) ==
    LET contractors == row.f["Contractors"]
    IN  IF contractors.t \notin ({"absent", "null"} \cup ScalarTypes)
        THEN [row EXCEPT !.f["Contractors"] = Val("str", JsonDumps(contractors))]
        ELSE row

RECURSIVE normalize_rows(_)
normalize_rows(rows) ==
    IF rows = <<>> THEN <<>>
    ELSE IF RowFalsy(Head(rows)) THEN normalize_rows(Tail(rows))
    ELSE <<NormalizeRow(Head(rows))>> \o normalize_rows(Tail(rows))

\* item.keys()
Keys(row) == {n \in FieldNames : row.f[n] # AbsentVal}

RowsKeys(rows) == UNION {Keys(rows[i]) : i \in 1..Len(rows)}

(* ------------------------------------------------------------------ *)
(* The Arrow table of run_t (lines 269-279)                           *)
(* ------------------------------------------------------------------ *)

\* col["data"] of each entry of COLUMNS_PAYLOAD (lines 37-50)
COLUMNS_PAYLOAD ==
    << None, "ContractNumber", "Contractors", "DateOfGrant", "EffectiveDateFrom",
       "EffectiveDateTo", "AmountToPay", "Service", "EntityId", "CancellationDate",
       None >>

\* fallback_keys (line 272): the entries that are non-empty strings
fallback_keys ==
    {COLUMNS_PAYLOAD[i] : i \in {j \in 1..Len(COLUMNS_PAYLOAD) : ~Falsy(COLUMNS_PAYLOAD[j])}}

\* EmptyTableKeys without the fallback of lines 273-276.
EmptyTableKeysBare(observed) == observed

\* observed_keys after lines 273-276: the fallback keys when none was observed,
\* the sentinel when there is still none.
EmptyTableKeys(observed) ==
    LET with_fallback == IF observed = {} THEN observed \cup fallback_keys ELSE observed
    IN  IF with_fallback = {} THEN with_fallback \cup {"__empty__"} ELSE with_fallback

\* A table: its column names and its rows.
Table(columns_, rows_) == [columns |-> columns_, rows |-> rows_]

NoTable == Table({}, <<>>)

\* pa.Table.from_arrays of one empty string array per key (lines 277-279)
EmptyTable(keys) == Table(keys, <<>>)

\* pa.Table.from_pylist(rows) with no schema (line 270): the column names are
\* the keys of the first row; each row gives row.get(name), None for a key it
\* lacks, and a key the first row lacks is not looked at.
FromPylist(rows_) ==
    LET names == Keys(rows_[1])
    IN  Table(names,
              [i \in 1..Len(rows_) |->
                 [n \in FieldNames |->
                    IF n \notin names THEN AbsentVal
                    ELSE IF rows_[i].f[n] = AbsentVal THEN Val("null", "")
                    ELSE rows_[i].f[n]]])

(* ------------------------------------------------------------------ *)
(* The arithmetic of run_t                                            *)
(* ------------------------------------------------------------------ *)

\* resp_json.get("recordsTotal") or 0 (line 206)
RecordsTotal(resp) == IF FalsyNum(resp.recordsTotal) THEN 0 ELSE resp.recordsTotal

\* resp_json.get("recordsFiltered") or records_total (line 207)
RecordsFiltered(resp) ==
    IF FalsyNum(resp.recordsFiltered) THEN RecordsTotal(resp) ELSE resp.recordsFiltered

\* math.ceil(a / float(b)) for a >= 0, b > 0
CeilDiv(a, b) == (a + b - 1) \div b

\* max(1, math.ceil(records_filtered / float(length))) (line 210)
TotalPages(records_filtered_, length_) == Max(1, CeilDiv(records_filtered_, length_))

\* PageStart with an off-by-one: each page starts on the last row of the one before.
PageStartOverlap(page_idx_, length_) == IF page_idx_ = 0 THEN 0 ELSE page_idx_ * length_ - 1

\* start = page_idx * length (line 222)
PageStart(page_idx_, length_) == page_idx_ * length_

\* ShortPage with <= for <: a full page ends the loop too.
ShortPageOrFull(rows, length_) == Len(rows) <= length_

\* len(data_rows) < length (line 262)
ShortPage(rows, length_) == Len(rows) < length_

\* attempt == MAX_RETRIES (line 202)
FirstPageExhausted(attempt_) == attempt_ = MAX_RETRIES

\* PageExhausted one attempt early.
PageExhaustedEarly(attempt_) == attempt_ >= MAX_RETRIES - 1

\* PageExhausted one attempt late.
PageExhaustedLate(attempt_) == attempt_ >= MAX_RETRIES + 1

\* attempt >= MAX_RETRIES (line 240)
PageExhausted(attempt_) == attempt_ >= MAX_RETRIES

\* RETRY_BACKOFF ** (attempt - 1) (lines 204, 259)
RECURSIVE Power(_, _)
Power(b, e) == IF e = 0 THEN 1 ELSE b * Power(b, e - 1)

\* Backoff with the exponent one too high.
BackoffOffByOne(attempt_) == Power(RETRY_BACKOFF, attempt_)

Backoff(attempt_) == Power(RETRY_BACKOFF, attempt_ - 1)

\* NextDraw that does not count.
NextDrawStuck(draw_) == draw_

\* draw += 1 (line 223)
NextDraw(draw_) == draw_ + 1

\* The pages a harvest of the model can ask for.
MaxPages == TotalPages(MaxCount, PAGE_LENGTH)

Pages == 0..(MaxPages - 1)

\* The recordsFiltered a response reports; NoCount when the field is missing.
Counts == {NoCount} \cup (0..MaxCount)

\* The recordsTotal a response reports: missing, zero or the largest count.
TotalCounts == {NoCount, 0, MaxCount}

(* ------------------------------------------------------------------ *)
(* The state of one call of run_t                                      *)
(* ------------------------------------------------------------------ *)

VARIABLES
    pc,              \* where run_t stands
    ddmm,            \* argument
    date_to_ddmm,    \* argument
    year_chosen,     \* argument
    table,           \* the rows the remote holds for the date range
    browser,         \* "none", "open" or "quit": the Firefox process
    session,         \* the cookies and the token header of requests.Session
    date_from,
    date_to,
    draw,
    start,
    page_idx,
    attempt,
    payload,
    records_filtered,
    total_pages,
    data_rows,
    collected_rows,
    observed_keys,
    output_file,     \* "absent", "partial" or "written"
    parquet,         \* the table copied to the file, NoTable before
    writes,          \* history: executions of the COPY statement
    last_post,       \* history: page, draw and start of the latest POST
    fatal,           \* the exception that left run_t, NoError while none has
    last_error,      \* the exception of the latest failed attempt
    first_resp,      \* history: the counts of the first response
    posts,           \* history: POSTs sent, per page index
    refreshes,       \* history: session refreshes attempted, per page index
    last_refresh,    \* history: how the latest refresh ended
    last_sleep,      \* history: the latest time.sleep
    page_len         \* history: len(data) of each page's answer, -1 before it

vars == <<pc, ddmm, date_to_ddmm, year_chosen, table, browser, session, date_from,
          date_to, draw, start, page_idx, attempt, payload, records_filtered,
          total_pages, data_rows, collected_rows, observed_keys, output_file, parquet,
          writes, last_post,
          fatal, last_error, first_resp, posts, refreshes, last_refresh, last_sleep,
          page_len>>

\* length = PAGE_LENGTH (line 191)
length == PAGE_LENGTH

Err(at_, page_, attempt_) == [at |-> at_, page |-> page_, attempt |-> attempt_]

NoError == Err("none", 0, 0)

NoPayload == build_payload(0, 0, 0, None, None)

\* time.sleep(RETRY_BACKOFF ** (attempt - 1)) after failed attempt attempt_
BackoffSleep(attempt_) == [kind |-> "backoff", after |-> attempt_, t |-> Backoff(attempt_)]

\* time.sleep(REQUEST_DELAY) (line 261)
PacingSleep == [kind |-> "pacing", after |-> 0, t |-> 0]

NoSleep == [kind |-> "none", after |-> 0, t |-> 0]

\* The page asked for by a POST and the draw and start it carried.
Post(page_, payload_) == [page |-> page_, draw |-> payload_.draw, start |-> payload_.start]

NoPost == [page |-> 0 - 1, draw |-> 0, start |-> 0]

NoResp == [recordsTotal |-> NoCount, recordsFiltered |-> NoCount]

Init ==
    /\ pc = "start"
    /\ \E a \in DateArgs : ddmm = a[1] /\ date_to_ddmm = a[2]
    /\ year_chosen \in YearArgs
    /\ \E v \in Variants, n \in 0..MaxRows : table = ServerTable(v, n)
    /\ browser = "none"
    /\ session = NewSession
    /\ date_from = None
    /\ date_to = None
    /\ draw = 0
    /\ start = 0
    /\ page_idx = 0
    /\ attempt = 0
    /\ payload = NoPayload
    /\ records_filtered = 0
    /\ total_pages = 0
    /\ data_rows = <<>>
    /\ collected_rows = <<>>
    /\ observed_keys = {}
    /\ output_file = "absent"
    /\ parquet = NoTable
    /\ writes = 0
    /\ last_post = NoPost
    /\ fatal = NoError
    /\ last_error = NoError
    /\ first_resp = NoResp
    /\ posts = [p \in Pages |-> 0]
    /\ refreshes = [p \in Pages |-> 0]
    /\ last_refresh = "none"
    /\ last_sleep = NoSleep
    /\ page_len = [p \in Pages |-> -1]

inputs == <<ddmm, date_to_ddmm, year_chosen, table>>

dates == <<date_from, date_to>>

cursor == <<draw, start, page_idx, payload>>

totals == <<records_filtered, total_pages, first_resp>>

rows == <<data_rows, collected_rows, observed_keys, page_len>>

out == <<output_file, parquet, writes>>

sent == <<posts, last_post>>

\* Abort as a break out of the loop: the rows gathered so far go on to be written.
AbortAsBreak(e) ==
    /\ pc' = "write"
    /\ fatal' = e
    /\ UNCHANGED <<browser, out>>

\* An exception leaves the try block of run_t: the finally clause quits the
\* browser (lines 289-293) and nothing is written.
Abort(e) ==
    /\ pc' = "error"
    /\ fatal' = e
    /\ browser' = "quit"
    /\ UNCHANGED out

\* BrowserAfterBootstrapFailure without the driver.quit() of line 91.
BrowserLeftOpen(started) == IF started THEN "open" ELSE "none"

\* The Firefox process after start_browser_get_token raised: none when the
\* driver was never created (lines 61-62), quit by the except clause when the
\* page load or the reads raised (lines 64-92).
BrowserAfterBootstrapFailure(started) == IF started THEN "quit" ELSE "none"

\* start_browser_get_token, then lines 177-180.  The driver cannot be created
\* (lines 61-62), or the page load fails and the driver is quit (lines 90-92),
\* or driver_info is returned and copied into a new session.
StartBrowser ==
    /\ pc = "start"
    /\ \/ /\ pc' = "error"
          /\ fatal' = Err("no_driver", 0, 0)
          /\ browser' = BrowserAfterBootstrapFailure(FALSE)
          /\ UNCHANGED session
       \/ /\ pc' = "error"
          /\ fatal' = Err("bootstrap", 0, 0)
          /\ browser' = BrowserAfterBootstrapFailure(TRUE)
          /\ UNCHANGED session
       \/ \E view \in BrowserViews :
            /\ pc' = "dates"
            /\ browser' = "open"
            /\ session' = update_session_from_driver(NewSession, BootstrapInfo(view))
            /\ UNCHANGED fatal
    /\ UNCHANGED <<inputs, dates, cursor, attempt, totals, rows, out,
                   last_error, sent, refreshes, last_refresh, last_sleep>>

\* date_to_ddmm or "31/12" (line 185)
DateToArg == IF Falsy(date_to_ddmm) THEN "31/12" ELSE date_to_ddmm

\* Lines 182-192: both dates are built before the try block is entered, then
\* the payload of page 0.
BuildDates ==
    /\ pc = "dates"
    /\ IF BuildDateRaises(ddmm) \/ BuildDateRaises(DateToArg)
       THEN /\ pc' = "error"
            /\ fatal' = Err("date", 0, 0)
            /\ UNCHANGED <<dates, cursor>>
       ELSE /\ pc' = "first_page"
            /\ date_from' = BuildDate(ddmm, year_chosen)
            /\ date_to' = BuildDate(DateToArg, year_chosen)
            /\ draw' = 1
            /\ start' = 0
            /\ page_idx' = 0
            /\ payload' = build_payload(1, 0, length, date_from', date_to')
            /\ UNCHANGED fatal
    /\ UNCHANGED <<inputs, browser, session, attempt, totals, rows, out,
                   last_error, sent, refreshes, last_refresh, last_sleep>>

\* Lines 221-226: after attempt a of a page was answered the loop goes to page
\* `next` of total_pages_, or ends (line 266).
EnterPage(next, total_pages_, a) ==
    IF next < total_pages_
    THEN /\ pc' = "page"
         /\ page_idx' = next
         /\ start' = PageStart(next, length)
         /\ draw' = NextDraw(draw)
         /\ payload' = build_payload(draw', start', length, date_from, date_to)
         /\ attempt' = 0
    ELSE /\ pc' = "write"
         /\ attempt' = a
         /\ UNCHANGED cursor

\* One attempt of the first page that raises in try_post_page (lines 196-204):
\* the last one re-raises, the others sleep and go round.
FirstPageFails ==
    /\ pc = "first_page"
    /\ LET a == attempt + 1
           e == Err("post", 0, a)
       IN  /\ posts' = [posts EXCEPT ![0] = @ + 1]
           /\ last_post' = Post(page_idx, payload)
           /\ last_error' = e
           /\ attempt' = a
           /\ IF FirstPageExhausted(a)
              THEN Abort(e) /\ UNCHANGED last_sleep
              ELSE /\ last_sleep' = BackoffSleep(a)
                   /\ UNCHANGED <<pc, fatal, browser, out>>
    /\ UNCHANGED <<inputs, session, dates, cursor, totals, rows, refreshes, last_refresh>>

\* One attempt of the first page that is answered (lines 198-199), then lines
\* 206-218 and the entry of the loop.
FirstPageAnswers ==
    /\ pc = "first_page"
    /\ \E rt \in TotalCounts, rf \in Counts :
         LET resp_json == [recordsTotal |-> rt, recordsFiltered |-> rf,
                           data |-> ServerPage(table, payload.start, payload.length)]
             first_rows == resp_json.data
         IN  /\ posts' = [posts EXCEPT ![0] = @ + 1]
             /\ last_post' = Post(page_idx, payload)
             /\ IF NormalizeRaises(first_rows)
                THEN /\ Abort(Err("process", 0, attempt + 1))
                     /\ attempt' = attempt + 1
                     /\ UNCHANGED <<cursor, totals, rows>>
                ELSE /\ first_resp' = [recordsTotal |-> rt, recordsFiltered |-> rf]
                     /\ records_filtered' = RecordsFiltered(resp_json)
                     /\ total_pages' = TotalPages(records_filtered', length)
                     /\ collected_rows' = collected_rows \o normalize_rows(first_rows)
                     /\ observed_keys' = observed_keys \cup RowsKeys(normalize_rows(first_rows))
                     /\ page_len' = [page_len EXCEPT ![0] = Len(first_rows)]
                     /\ EnterPage(1, total_pages', attempt + 1)
                     /\ UNCHANGED <<data_rows, fatal, browser, out>>
    /\ UNCHANGED <<inputs, session, dates, last_error, refreshes, last_refresh, last_sleep>>

\* Lines 238-244 for the exception e of attempt a: the last attempt re-raises,
\* the others go on to the session refresh.
PageAttemptFailed(e, a) ==
    /\ last_error' = e
    /\ attempt' = a
    /\ IF PageExhausted(a)
       THEN Abort(e)
       ELSE /\ pc' = "refresh"
            /\ UNCHANGED <<fatal, browser, out>>
    /\ UNCHANGED <<cursor, rows, last_sleep>>

\* One attempt of a later page that raises in try_post_page (line 230).
PageFails ==
    /\ pc = "page"
    /\ posts' = [posts EXCEPT ![page_idx] = @ + 1]
    /\ last_post' = Post(page_idx, payload)
    /\ PageAttemptFailed(Err("post", page_idx, attempt + 1), attempt + 1)
    /\ UNCHANGED <<inputs, session, dates, totals, refreshes, last_refresh>>

\* One attempt of a later page that is answered (lines 230-237), then the
\* pacing delay and the end-of-data test (lines 261-264).
PageAnswers ==
    /\ pc = "page"
    /\ posts' = [posts EXCEPT ![page_idx] = @ + 1]
    /\ last_post' = Post(page_idx, payload)
    /\ LET resp_data == ServerPage(table, payload.start, payload.length)
       IN  IF NormalizeRaises(resp_data)
           THEN PageAttemptFailed(Err("process", page_idx, attempt + 1), attempt + 1)
           ELSE /\ data_rows' = resp_data
                /\ collected_rows' = collected_rows \o normalize_rows(resp_data)
                /\ observed_keys' = observed_keys \cup RowsKeys(normalize_rows(resp_data))
                /\ page_len' = [page_len EXCEPT ![page_idx] = Len(resp_data)]
                /\ last_sleep' = PacingSleep
                /\ IF ShortPage(resp_data, length)
                   THEN /\ pc' = "write"
                        /\ attempt' = attempt + 1
                        /\ UNCHANGED cursor
                   ELSE EnterPage(page_idx + 1, total_pages, attempt + 1)
                /\ UNCHANGED <<fatal, browser, out, last_error>>
    /\ UNCHANGED <<inputs, session, dates, totals, refreshes, last_refresh>>

\* new_token of the refresh (lines 249-253): the hidden field alone.
RefreshInfo(view) == [token |-> view.field, cookies |-> view.cookies]

\* refresh_session applying the cookies as soon as they are read, before line 255.
refresh_session_eager(s, view, fault) ==
    IF fault = "load" THEN s ELSE update_session_from_driver(s, RefreshInfo(view))

\* Lines 245-258: the session after a refresh.  fault is where the browser
\* raised: "load" (lines 246-247), "script" (line 255, after the cookies were
\* read) or "none"; only then is the session updated (line 256).
refresh_session(s, view, fault) ==
    IF fault = "none" THEN update_session_from_driver(s, RefreshInfo(view)) ELSE s

RefreshFaults == {"none", "load", "script"}

\* Lines 243-259: the refresh between two attempts of a later page, its
\* exception swallowed, then the backoff sleep.
RefreshSession ==
    /\ pc = "refresh"
    /\ \E view \in BrowserViews, fault \in RefreshFaults :
         /\ session' = refresh_session(session, view, fault)
         /\ last_refresh' = IF fault = "none" THEN "ok" ELSE "failed"
    /\ refreshes' = [refreshes EXCEPT ![page_idx] = @ + 1]
    /\ last_sleep' = BackoffSleep(attempt)
    /\ pc' = "page"
    /\ UNCHANGED <<inputs, browser, dates, cursor, attempt, totals, rows, out,
                   fatal, last_error, sent>>

\* AfterCopy going round to the write again.
AfterCopyAgain == "write"

\* Where run_t stands once the COPY was executed (line 288): at its end.
AfterCopy == "done"

\* Lines 266-293: the table is built from the rows, or from the keys when
\* there is no row, and copied to the Parquet file; mkdir, the table's type
\* inference or the copy may raise; the browser is quit either way.
WriteParquet ==
    /\ pc = "write"
    /\ \/ /\ pc' = "error"
          /\ fatal' = Err("mkdir", 0, 0)
          /\ UNCHANGED <<observed_keys, out>>
       \/ /\ collected_rows # <<>>
          /\ pc' = "error"
          /\ fatal' = Err("table", 0, 0)
          /\ UNCHANGED <<observed_keys, out>>
       \/ /\ observed_keys' = IF collected_rows # <<>> THEN observed_keys
                               ELSE EmptyTableKeys(observed_keys)
          /\ LET table_ == IF collected_rows # <<>> THEN FromPylist(collected_rows)
                           ELSE EmptyTable(observed_keys')
             IN  \/ /\ pc' = AfterCopy
                    /\ output_file' = "written"
                    /\ parquet' = table_
                    /\ writes' = writes + 1
                    /\ UNCHANGED fatal
                 \/ /\ pc' = "error"
                    /\ fatal' = Err("copy", 0, 0)
                    /\ output_file' \in {"absent", "partial"}
                    /\ writes' = writes + 1
                    /\ UNCHANGED parquet
    /\ browser' = "quit"
    /\ UNCHANGED <<inputs, session, dates, cursor, attempt, totals, data_rows,
                   collected_rows, page_len, last_error, sent, refreshes,
                   last_refresh, last_sleep>>

Next ==
    \/ StartBrowser
    \/ BuildDates
    \/ FirstPageFails
    \/ FirstPageAnswers
    \/ PageFails
    \/ PageAnswers
    \/ RefreshSession
    \/ WriteParquet

Spec == Init /\ [][Next]_vars

(* ------------------------------------------------------------------ *)
(* Properties                                                         *)
(* ------------------------------------------------------------------ *)

\* The pages that were answered and processed.
FetchedPages == {p \in Pages : page_len[p] >= 0}

\* Some fetched page held fewer than `length` rows.
SawShortPage == \E p \in FetchedPages : page_len[p] < length

\* run_t was left by the re-raise of a page's last failed attempt (lines 203, 242).
BudgetExhausted == fatal.at = "post" \/ (fatal.at = "process" /\ fatal.page > 0)

\* The loop over the pages has ended without an exception.
HarvestEnded == pc \in {"write", "done"} \/ (pc = "error" /\ fatal.at \in {"mkdir", "copy"})

\* C1: a page whose every attempt fails gets exactly MAX_RETRIES POSTs, page 0
\* as well as the later pages, and run_t is then left by the exception of the
\* last attempt; no page ever gets more than MAX_RETRIES POSTs.
C1_RetryBound ==
    /\ \A p \in Pages : posts[p] <= MAX_RETRIES
    /\ BudgetExhausted =>
         /\ posts[fatal.page] = MAX_RETRIES
         /\ fatal.attempt = MAX_RETRIES
         /\ fatal = last_error
         /\ pc = "error"
    /\ (pc \in {"first_page", "page", "refresh"}) => ~BudgetExhausted

C1_Witness ==
    /\ fatal.at = "post"
    /\ fatal.page = 1
    /\ posts[1] = MAX_RETRIES
    /\ posts[0] = 2

\* C2: once a page, the first one included, has returned fewer than `length`
\* rows, no later page is requested.
C2_ShortPageStopsHarvest ==
    \A p \in FetchedPages, q \in Pages :
        (p < q /\ page_len[p] < length) => posts[q] = 0

\* C3: when a page's retry budget is exhausted run_t ends in the error and the
\* output file is not written, whatever was accumulated before.
C3_NoFileAfterExhaustion ==
    BudgetExhausted => (pc = "error" /\ output_file = "absent")

C3_Witness ==
    /\ BudgetExhausted
    /\ fatal.page = 2
    /\ Len(collected_rows) = 2 * length

\* C4: every page that was fetched after f failed attempts, page 0 included,
\* saw exactly f session refreshes.
C4_RefreshBeforeEveryRetry ==
    \A p \in FetchedPages : refreshes[p] = posts[p] - 1

\* The count the first response carries: recordsFiltered when present, else
\* recordsTotal, else nothing.
ReportedFiltered ==
    IF first_resp.recordsFiltered # NoCount THEN first_resp.recordsFiltered
    ELSE IF first_resp.recordsTotal # NoCount THEN first_resp.recordsTotal
    ELSE 0

\* C5: total_pages is max(1, ceil(F / length)) for the F the first response
\* carries, a recordsFiltered of 0 included; with recordsFiltered = 0 only the
\* first page is requested.
C5_TotalPagesFromFiltered ==
    0 \in FetchedPages =>
        /\ total_pages = Max(1, CeilDiv(ReportedFiltered, length))
        /\ first_resp.recordsFiltered = 0 => \A p \in Pages : p > 0 => posts[p] = 0

\* C6: total_pages is the least page count that covers records_filtered (1 at
\* least); no page from total_pages on is ever requested; a harvest that ended
\* with no failed attempt and full pages before the last has requested each of
\* the pages 0 .. total_pages-1 once; and a page below total_pages is left
\* unrequested only after a page with fewer than `length` rows.
C6_PageCount ==
    /\ 0 \in FetchedPages =>
         /\ total_pages >= 1
         /\ total_pages * length >= records_filtered
         /\ total_pages > 1 => (total_pages - 1) * length < records_filtered
    /\ \A p \in Pages : (p > 0 /\ p >= total_pages) => posts[p] = 0
    /\ HarvestEnded =>
         /\ ( /\ \A p \in Pages : posts[p] <= 1
              /\ \A p \in Pages : p < total_pages - 1 => page_len[p] = length )
            => \A p \in Pages : p < total_pages => posts[p] = 1
         /\ \A p \in Pages :
              (p < total_pages /\ posts[p] = 0) =>
                  \E q \in FetchedPages : q < p /\ page_len[q] < length

C6_Witness ==
    /\ pc = "done"
    /\ total_pages = 3
    /\ \A p \in Pages : posts[p] = 1
    /\ page_len[0] = length
    /\ page_len[1] = length

\* The first response carried a recordsFiltered below the number of rows the
\* remote holds.
FilteredUnderstates ==
    /\ first_resp.recordsFiltered > 0
    /\ first_resp.recordsFiltered < Len(table)

\* C7: when recordsFiltered understates the rows the remote holds, a run that
\* ends successfully has fetched every row or has seen a page with fewer than
\* `length` rows.
C7_NoSilentMissingRows ==
    (pc = "done" /\ FilteredUnderstates) =>
        \/ Len(table) <= Cardinality(FetchedPages) * length
        \/ SawShortPage

\* C8: the accumulated rows are the normalized rows of the fetched pages, one
\* copy of each page in ascending page order, whatever attempts failed.
C8_RowsAreFetchedPages ==
    LET k == Cardinality(FetchedPages)
    IN  /\ FetchedPages = 0..(k - 1)
        /\ collected_rows = normalize_rows(SubSeq(table, 1, Min(Len(table), k * length)))

C8_Witness ==
    /\ pc = "done"
    /\ Len(table) = length + 1
    /\ records_filtered = length + 1
    /\ Len(collected_rows) = length + 1
    /\ posts[0] = 2
    /\ posts[1] = 3
    /\ refreshes[1] = 2

\* C9: a refresh that fails leaves the session, the attempt count and the
\* payload as they were and hands over to the next retry; the POSTs of a page
\* are counted by attempt alone, so the page keeps its whole budget.
C9_FailedRefreshIsHarmless ==
    /\ [][ (pc = "refresh" /\ last_refresh' = "failed" /\ pc' # "refresh") =>
             /\ session' = session
             /\ attempt' = attempt
             /\ payload' = payload
             /\ posts' = posts
             /\ fatal' = NoError
             /\ pc' = "page" ]_vars
    /\ [](pc \in {"page", "refresh"} => posts[page_idx] = attempt)

C9_Witness ==
    /\ pc = "done"
    /\ last_refresh = "failed"
    /\ posts[1] = MAX_RETRIES
    /\ 1 \in FetchedPages

\* C10: once the browser was started, run_t never ends with it still open.
C10_BrowserClosedAtEnd ==
    (pc \in {"done", "error"} /\ browser # "none") => browser = "quit"

\* The initial bootstrap failed: no driver, or the home page did not load.
BootstrapFailed == fatal.at \in {"no_driver", "bootstrap"}

\* C11: when the initial bootstrap fails run_t ends at once: no page is ever
\* requested, no file is written, and a browser that was started is quit.
C11_BootstrapFailureAborts ==
    BootstrapFailed =>
        /\ pc = "error"
        /\ \A p \in Pages : posts[p] = 0
        /\ output_file = "absent"
        /\ browser # "open"
        /\ fatal.at = "bootstrap" => browser = "quit"

C11_Witness == fatal.at = "bootstrap" /\ browser = "quit" /\ pc = "error"

\* The table written by a run that ended well and had gathered rows.
WroteRows == pc = "done" /\ collected_rows # <<>>

\* C12: the columns of the table written from a non-empty list of rows are
\* the union of the keys of all the rows, and every row has a value for every
\* column.
C12_ColumnsAreUnionOfKeys ==
    WroteRows =>
        /\ parquet.columns = RowsKeys(collected_rows)
        /\ \A i \in 1..Len(parquet.rows), n \in parquet.columns :
              parquet.rows[i][n] # AbsentVal

\* The table written by a run that ended well and had gathered no row.
WroteNoRow == pc = "done" /\ collected_rows = <<>>

\* C13: a run that gathers no row writes a table with no row and a non-empty
\* set of columns: the observed keys if any, else the string entries of
\* COLUMNS_PAYLOAD, and __empty__ exactly when there is neither.
C13_EmptyTableHasColumns ==
    /\ WroteNoRow =>
          /\ output_file = "written"
          /\ parquet.rows = <<>>
          /\ parquet.columns # {}
          /\ parquet.columns = fallback_keys
          /\ observed_keys = parquet.columns
    /\ \A observed \in SUBSET FieldNames :
          /\ observed # {} => EmptyTableKeys(observed) = observed
          /\ observed = {} /\ fallback_keys # {} => EmptyTableKeys(observed) = fallback_keys
          /\ "__empty__" \in EmptyTableKeys(observed) <=> observed = {} /\ fallback_keys = {}

C13_Witness == WroteNoRow /\ "DateOfGrant" \in parquet.columns /\ posts[0] > 0

\* C14: no accumulated row holds a nested value: whatever the name of the
\* field, a list or an object was replaced by its text.
C14_NoNestedValue ==
    \A i \in 1..Len(collected_rows), n \in FieldNames :
        collected_rows[i].f[n].t \in ScalarTypes \cup {"null", "absent"}

\* C15: a record of an answered page never makes the processing of the page
\* raise: no attempt fails on it and run_t is never left because of it.
C15_MalformedRecordIsHarmless ==
    fatal.at # "process" /\ last_error.at # "process"

\* C17: when the first request of a later page is about to be sent, the
\* latest sleep was the pacing delay that followed the page before.
C17_PacingBeforeEveryNextPage ==
    pc = "page" /\ attempt = 0 => last_sleep = PacingSleep

\* C16: the POST for page i carries draw = i + 1 and start = i * length; from
\* one POST to the next draw and start never decrease, a retry of the same
\* page resends them unchanged, and a new page has both strictly greater.
C16_DrawAndStartFollowThePage ==
    [][ posts' # posts =>
          /\ last_post'.draw = last_post'.page + 1
          /\ last_post'.start = last_post'.page * length
          /\ last_post'.draw >= last_post.draw
          /\ last_post'.start >= last_post.start
          /\ last_post'.page = last_post.page =>
                last_post'.draw = last_post.draw /\ last_post'.start = last_post.start
          /\ (last_post'.page # last_post.page /\ last_post # NoPost) =>
                /\ last_post'.page = last_post.page + 1
                /\ last_post'.draw > last_post.draw
                /\ last_post'.start > last_post.start ]_vars

C16_Witness ==
    /\ last_post = [page |-> 1, draw |-> 2, start |-> length]
    /\ posts[0] >= 2
    /\ posts[1] >= 2
    /\ refreshes[1] >= 1

\* A retry of the current page is about to be sent.
RetryPending == pc \in {"first_page", "page"} /\ attempt >= 1

\* C18: before attempt k+1 of a page, page 0 or later, the latest sleep was
\* the backoff after failed attempt k and lasted RETRY_BACKOFF^(k-1), that is
\* 1, RETRY_BACKOFF, RETRY_BACKOFF^2; the last failed attempt is followed by
\* no backoff.
C18_BackoffBetweenAttempts ==
    /\ RetryPending =>
          /\ attempt < MAX_RETRIES
          /\ last_sleep.kind = "backoff"
          /\ last_sleep.after = attempt
          /\ last_sleep.t = CASE attempt = 1 -> 1
                               [] attempt = 2 -> RETRY_BACKOFF
                               [] attempt = 3 -> RETRY_BACKOFF * RETRY_BACKOFF
    /\ (pc = "error" /\ BudgetExhausted) =>
          /\ fatal.attempt = MAX_RETRIES
          /\ last_sleep.kind = "backoff"
          /\ last_sleep.after = MAX_RETRIES - 1

C18_Witness ==
    /\ pc = "page"
    /\ attempt = 3
    /\ last_sleep = [kind |-> "backoff", after |-> 3, t |-> 4]
    /\ posts[0] = 3

\* The session a bootstrap from the given view of the browser builds.
FreshSession(view) == update_session_from_driver(NewSession, BootstrapInfo(view))

\* C19: after a successful refresh the session is a freshly obtained one:
\* its cookies and its token are those a bootstrap from the page just loaded
\* gives, with nothing left of the session before.
C19_RefreshReplacesSession ==
    [][ (refreshes' # refreshes /\ last_refresh' = "ok") =>
          \E view \in BrowserViews : session' = FreshSession(view) ]_vars

\* The page the loop stands on was answered and no page follows it.
LastPageAnswered ==
    /\ page_len[page_idx] >= 0
    /\ \/ page_idx + 1 >= total_pages
       \/ page_idx > 0 /\ page_len[page_idx] < length

\* C20: the COPY to the output file runs at most once, and once exactly in a
\* run that ends well; it runs when the last page was answered, and no POST is
\* sent with it or after it.
C20_FileWrittenOnceAtTheEnd ==
    /\ [](/\ writes <= 1
          /\ pc = "done" => writes = 1 /\ output_file = "written"
          /\ output_file # "absent" => writes = 1
          /\ writes > 0 => pc \in {"done", "error"})
    /\ [][ writes' # writes => posts' = posts /\ LastPageAnswered ]_vars
    /\ [][ posts' # posts => writes = 0 /\ writes' = 0 ]_vars

C20_Witness ==
    /\ pc = "done"
    /\ writes = 1
    /\ output_file = "written"
    /\ posts[1] >= 1
    /\ posts[0] >= 2

\* The values a field of a scalar record may hold, one of each scalar type.
ScalarValues ==
    { AbsentVal, Val("null", ""), Val("str", "Solo"), Val("int", "3"),
      Val("float", "2.5"), Val("bool", "true") }

\* The records that are mappings, not empty, with scalar fields only.
ScalarRecords ==
    { r \in [kind : {"dict"}, f : [FieldNames -> ScalarValues]] : ~RowFalsy(r) }

\* Every field of the row is absent or scalar.
AllScalar(row) ==
    row.kind = "dict" /\ \A n \in FieldNames : row.f[n].t \in ScalarTypes \cup {"null", "absent"}

\* normalize_rows on each scalar record alone, once and twice.
ScalarsPassThrough ==
    \A r \in ScalarRecords :
        /\ normalize_rows(<<r>>) = <<r>>
        /\ normalize_rows(normalize_rows(<<r>>)) = normalize_rows(<<r>>)

\* C21: normalize_rows gives back unchanged every non-empty record whose
\* fields are all scalar, so applying it twice is the same as applying it
\* once; the scalar records of an answered page are accumulated as they came.
C21_NormalizeIsIdentityOnScalars ==
    /\ ScalarsPassThrough
    /\ \A i \in 1..Len(data_rows) :
          (AllScalar(data_rows[i]) /\ ~RowFalsy(data_rows[i])) =>
              /\ NormalizeRow(data_rows[i]) = data_rows[i]
              /\ \E j \in 1..Len(collected_rows) : collected_rows[j] = data_rows[i]
    /\ (\A j \in 1..Len(collected_rows) : AllScalar(collected_rows[j])) =>
          normalize_rows(collected_rows) = collected_rows

C21_Witness ==
    /\ pc = "done"
    /\ \E i \in 1..Len(data_rows) :
          /\ AllScalar(data_rows[i])
          /\ data_rows[i].f["Contractors"].t = "str"
          /\ \E j \in 1..Len(collected_rows) : collected_rows[j] = data_rows[i]

(* ------------------------------------------------------------------ *)
(* Two harvests side by side                                          *)
(* ------------------------------------------------------------------ *)

\* Two calls of run_t in progress at once; every local of run_t is a function
\* of the harvest, and output_file is the directory OUTPUT_DIR they share.
Harvests == {1, 2}

Years == {2023, 2024}

\* The row counts of the tables the two queries return.
ConcRowCounts == {0, PAGE_LENGTH + 1}

\* ParquetPath with the year left out of the file name.
ParquetPathFixed(year_chosen_) == "contracts.parquet"

\* OUTPUT_DIR / f"contracts_{year_chosen}.parquet" (line 266)
ParquetPath(year_chosen_) == "contracts_" \o ToString(year_chosen_) \o ".parquet"

Paths == {ParquetPath(y) : y \in Years}

ConcInit ==
    /\ pc = [h \in Harvests |-> "start"]
    /\ year_chosen \in {f \in [Harvests -> Years] : f[1] # f[2]}
    /\ table \in [Harvests -> {ServerTable("sparse_first", n) : n \in ConcRowCounts}]
    /\ browser = [h \in Harvests |-> "none"]
    /\ session = [h \in Harvests |-> NewSession]
    /\ draw = [h \in Harvests |-> 0]
    /\ start = [h \in Harvests |-> 0]
    /\ page_idx = [h \in Harvests |-> 0]
    /\ attempt = [h \in Harvests |-> 0]
    /\ total_pages = [h \in Harvests |-> 0]
    /\ collected_rows = [h \in Harvests |-> <<>>]
    /\ output_file = [p \in Paths |-> NoTable]
    /\ ddmm = "1/1"
    /\ date_to_ddmm = None
    /\ date_from = None
    /\ date_to = None
    /\ payload = NoPayload
    /\ records_filtered = 0
    /\ data_rows = <<>>
    /\ observed_keys = {}
    /\ parquet = NoTable
    /\ writes = 0
    /\ last_post = NoPost
    /\ fatal = NoError
    /\ last_error = NoError
    /\ first_resp = NoResp
    /\ posts = [p \in Pages |-> 0]
    /\ refreshes = [p \in Pages |-> 0]
    /\ last_refresh = "none"
    /\ last_sleep = NoSleep
    /\ page_len = [p \in Pages |-> -1]

\* What the two-harvest actions leave alone.
idle == <<inputs, dates, payload, records_filtered, first_resp, data_rows,
          observed_keys, page_len, parquet, writes, fatal, last_error, sent,
          refreshes, last_refresh, last_sleep>>

\* Lines 176-192 of harvest h: its own browser, its own session, its own draw.
ConcStart(h) ==
    /\ pc[h] = "start"
    /\ \/ /\ pc' = [pc EXCEPT ![h] = "error"]
          /\ browser' = [browser EXCEPT ![h] = BrowserAfterBootstrapFailure(TRUE)]
          /\ UNCHANGED <<session, draw, start>>
       \/ \E view \in BrowserViews :
            /\ pc' = [pc EXCEPT ![h] = "page"]
            /\ browser' = [browser EXCEPT ![h] = "open"]
            /\ session' = [session EXCEPT ![h] =
                             update_session_from_driver(NewSession, BootstrapInfo(view))]
            /\ draw' = [draw EXCEPT ![h] = 1]
            /\ start' = [start EXCEPT ![h] = 0]
    /\ UNCHANGED <<page_idx, attempt, total_pages, collected_rows, output_file, idle>>

\* One attempt of harvest h's current page that raises (lines 196-204 and
\* 238-244): the last one ends the harvest, the others retry, after a refresh
\* on a later page.
ConcPostFails(h) ==
    /\ pc[h] = "page"
    /\ LET a == attempt[h] + 1
       IN  /\ attempt' = [attempt EXCEPT ![h] = a]
           /\ IF (page_idx[h] = 0 /\ FirstPageExhausted(a))
                 \/ (page_idx[h] > 0 /\ PageExhausted(a))
              THEN /\ pc' = [pc EXCEPT ![h] = "error"]
                   /\ browser' = [browser EXCEPT ![h] = "quit"]
              ELSE /\ pc' = [pc EXCEPT ![h] = IF page_idx[h] = 0 THEN "page" ELSE "refresh"]
                   /\ UNCHANGED browser
    /\ UNCHANGED <<session, draw, start, page_idx, total_pages, collected_rows,
                   output_file, idle>>

\* One attempt of harvest h's current page that is answered (lines 198-199,
\* 206-218 and 230-237), then the step to the next page or to the write.
ConcPostAnswers(h) ==
    /\ pc[h] = "page"
    /\ LET resp_data == ServerPage(table[h], start[h], length)
           counts == [recordsTotal |-> Len(table[h]), recordsFiltered |-> Len(table[h])]
           total_pages_ == IF page_idx[h] = 0
                           THEN TotalPages(RecordsFiltered(counts), length)
                           ELSE total_pages[h]
           ended == \/ page_idx[h] > 0 /\ ShortPage(resp_data, length)
                    \/ page_idx[h] + 1 >= total_pages_
       IN  /\ collected_rows' = [collected_rows EXCEPT ![h] = @ \o normalize_rows(resp_data)]
           /\ total_pages' = [total_pages EXCEPT ![h] = total_pages_]
           /\ IF ended
              THEN /\ pc' = [pc EXCEPT ![h] = "write"]
                   /\ attempt' = [attempt EXCEPT ![h] = @ + 1]
                   /\ UNCHANGED <<draw, start, page_idx>>
              ELSE /\ page_idx' = [page_idx EXCEPT ![h] = @ + 1]
                   /\ start' = [start EXCEPT ![h] = PageStart(page_idx[h] + 1, length)]
                   /\ draw' = [draw EXCEPT ![h] = NextDraw(@)]
                   /\ attempt' = [attempt EXCEPT ![h] = 0]
                   /\ UNCHANGED pc
    /\ UNCHANGED <<browser, session, output_file, idle>>

\* The refresh of harvest h between two attempts (lines 245-258), from its
\* own browser into its own session.
ConcRefresh(h) ==
    /\ pc[h] = "refresh"
    /\ \E view \in BrowserViews, fault \in RefreshFaults :
         session' = [session EXCEPT ![h] = refresh_session(@, view, fault)]
    /\ pc' = [pc EXCEPT ![h] = "page"]
    /\ UNCHANGED <<browser, draw, start, page_idx, attempt, total_pages,
                   collected_rows, output_file, idle>>

\* The table harvest h builds from its rows (lines 269-279).
ConcTable(h) ==
    IF collected_rows[h] # <<>> THEN FromPylist(collected_rows[h])
    ELSE EmptyTable(EmptyTableKeys({}))

\* Lines 266-293 of harvest h: its table goes to the file named after its year.
ConcWrite(h) ==
    /\ pc[h] = "write"
    /\ output_file' = [output_file EXCEPT ![ParquetPath(year_chosen[h])] = ConcTable(h)]
    /\ pc' = [pc EXCEPT ![h] = AfterCopy]
    /\ browser' = [browser EXCEPT ![h] = "quit"]
    /\ UNCHANGED <<session, draw, start, page_idx, attempt, total_pages,
                   collected_rows, idle>>

ConcNext ==
    \E h \in Harvests :
        \/ ConcStart(h)
        \/ ConcPostFails(h)
        \/ ConcPostAnswers(h)
        \/ ConcRefresh(h)
        \/ ConcWrite(h)

ConcSpec == ConcInit /\ [][ConcNext]_vars

\* What harvest h has of its own: its draw counter and cursor, its cookies
\* and token, its rows, and the file named after its year.
Own(h) ==
    [pc |-> pc[h], browser |-> browser[h], session |-> session[h], draw |-> draw[h],
     start |-> start[h], page_idx |-> page_idx[h], attempt |-> attempt[h],
     collected_rows |-> collected_rows[h],
     file |-> output_file[ParquetPath(year_chosen[h])]]

\* The table a harvest running alone writes for the given query result.
AloneTable(tbl) ==
    IF normalize_rows(tbl) # <<>> THEN FromPylist(normalize_rows(tbl))
    ELSE EmptyTable(fallback_keys)

\* C22: two harvests for different years share no state: a step changes
\* what one harvest has of its own and nothing of the other's; the draw of a
\* harvest follows its own pages, and the file of a harvest that ended well
\* holds the table it writes when it runs alone.
C22_HarvestsShareNoState ==
    /\ [][ \A h \in Harvests : \A g \in Harvests \ {h} :
              Own(h)' # Own(h) => Own(g)' = Own(g) ]_vars
    /\ [](\A h \in Harvests :
            /\ pc[h] \in {"page", "refresh", "write", "done"} => draw[h] = page_idx[h] + 1
            /\ pc[h] = "done" =>
                  /\ collected_rows[h] = normalize_rows(table[h])
                  /\ output_file[ParquetPath(year_chosen[h])] = AloneTable(table[h])
            /\ pc[h] # "done" => output_file[ParquetPath(year_chosen[h])] = NoTable)

C22_Witness ==
    /\ pc[1] = "done"
    /\ pc[2] = "done"
    /\ session[1] # session[2]
    /\ output_file[ParquetPath(year_chosen[1])].rows # <<>>
    /\ output_file[ParquetPath(year_chosen[2])].rows = <<>>
    /\ attempt[1] > 1
    /\ attempt[2] > 1

(* ------------------------------------------------------------------ *)
(* Termination                                                        *)
(* ------------------------------------------------------------------ *)

\* Every request, refresh and sleep returns: run_t always takes its next step.
FairSpec == Spec /\ WF_vars(Next)

\* f[0] + ... + f[n]
RECURSIVE SumUpTo(_, _)
SumUpTo(f, n) == IF n < 0 THEN 0 ELSE f[n] + SumUpTo(f, n - 1)

\* The POSTs sent and the refreshes attempted so far.
PostsSent == SumUpTo(posts, MaxPages - 1)

RefreshesAttempted == SumUpTo(refreshes, MaxPages - 1)

\* total_pages, which is 1 at least once it is known (line 210), and 1 for a
\* run that never gets the answer to its first page.
PagesOfRun == Max(1, total_pages)

\* run_t has returned or raised.
Terminated == pc \in {"done", "error"}

\* C23: run_t ends, with the file written or with an exception, and sends at
\* most total_pages * MAX_RETRIES POSTs and attempts at most
\* (total_pages - 1) * (MAX_RETRIES - 1) refreshes.
C23_HarvestTerminates ==
    /\ <>Terminated
    /\ [](/\ PostsSent <= PagesOfRun * MAX_RETRIES
          /\ RefreshesAttempted <= (PagesOfRun - 1) * (MAX_RETRIES - 1)
          /\ pc = "done" => output_file = "written"
          /\ pc = "error" => fatal # NoError)

C23_Witness ==
    /\ pc = "done"
    /\ total_pages >= 2
    /\ PostsSent = total_pages * MAX_RETRIES
    /\ RefreshesAttempted = (total_pages - 1) * (MAX_RETRIES - 1)

====
